---------------------------- MODULE Spec2Model ----------------------------
(***************************************************************************)
(* The in-memory CRUD resource controller of src/routers/v1.  The four     *)
(* routers (senders, delivery staffs, stations, vehicles) are the same     *)
(* code up to the names of the fields; the stations router is the one      *)
(* modelled: a required uniqueness-key field (name), an optional field     *)
(* (location) and the active flag (is_active).                             *)
(*                                                                         *)
(* Python values are modelled as strings: None, True, False, and Unset     *)
(* for a field the request body does not carry (pydantic's "unset").       *)
(*                                                                         *)
(* State (src/routers/v1/stations_router.py):                              *)
(*   stations_db  the module's dict (line 36), in insertion order          *)
(*   next_id      the module's id counter (line 37)                        *)
(*   clock        the value datetime.now() last returned (lines 94, 132)   *)
(*   req, resp    the request last served and its response                 *)
(*   created_ids  history: the ids successful creates returned (line 100)  *)
(***************************************************************************)
EXTENDS Integers, Sequences, FiniteSets, TLC

VARIABLES stations_db, next_id, clock, req, resp, created_ids

vars == <<stations_db, next_id, clock, req, resp, created_ids>>

(* ------------------------------ bounds -------------------------------- *)

\* Successful creates explored (next_id stays <= MaxCreates + 1).
MaxCreates == 2

\* Largest value of the clock explored.
MaxClock == 3

(* --------------------------- python values ---------------------------- *)

None == "None"
True == "True"
False == "False"
Unset == "Unset"

\* Station names a request can carry: a name, and the empty string.
Names == {"S1", ""}

Locations == {"Zone A"}

Fields == {"name", "location", "is_active"}

\* Path parameters tried: the ids the first three creates assign (an id is
\* requested before it is assigned, while it is stored, and after its delete).
Ids == {1, 2, 3}

\* Time elapsed between two calls: the clock advances strictly, so every
\* behaviour serves at most MaxClock requests.
Elapsed == {1}

\* Python truthiness of an Optional[str] value: None and "" are falsy.
Truthy(v) == v # None /\ v # ""

(* ----------------------- dict[int, dict] helpers ---------------------- *)
(* stations_db is an insertion-ordered dict: a sequence of entries        *)
(* [key, val], no key twice.                                              *)

Keys(db) == {db[i].key : i \in DOMAIN db}

\* station_id in stations_db
Has(db, k) == k \in Keys(db)

\* stations_db[station_id]
Lookup(db, k) == db[CHOOSE i \in DOMAIN db : db[i].key = k].val

\* Mutant: a key the dict has is removed and inserted again, at the end.
DictSet_reinsert(db, k, v) ==
    Append(SelectSeq(db, LAMBDA e : e.key # k), [key |-> k, val |-> v])

\* stations_db[k] = v: in place for a key the dict has, appended otherwise.
DictSet(db, k, v) ==
    IF Has(db, k)
    THEN [i \in DOMAIN db |-> IF db[i].key = k THEN [key |-> k, val |-> v] ELSE db[i]]
    ELSE Append(db, [key |-> k, val |-> v])

\* del stations_db[k]
DictDel(db, k) == SelectSeq(db, LAMBDA e : e.key # k)

\* list(stations_db.values())
Values(db) == [i \in DOMAIN db |-> db[i].val]

\* A slice bound of a list of n elements: a negative bound counts from the
\* end, and every bound is clamped to 0..n.
SliceIndex(i, n) ==
    IF i < 0 THEN (IF i + n < 0 THEN 0 ELSE i + n)
    ELSE IF i > n THEN n ELSE i

\* s[start:stop] of a python list.
PySlice(s, start, stop) ==
    LET a == SliceIndex(start, Len(s))
        b == SliceIndex(stop, Len(s))
    IN  IF a < b THEN SubSeq(s, a + 1, b) ELSE <<>>

\* Query parameters tried: skip and limit (default 0 and 100), negative values
\* included since the signature takes any int, and the is_active filter
\* (default None).
Skips == {-1, 0, 1, 2}

Limits == {-1, 0, 1, 100}

Filters == {None, True, False}

(* --------------------------- pydantic models -------------------------- *)

\* StationCreate: name is required, location defaults to None, is_active to True
\* (a body carrying is_active = true stores what a body without it stores).
StationCreateBodies ==
    [name : Names, location : Locations \cup {Unset}, is_active : {False, Unset}]

\* StationUpdate: every field optional, an explicit null accepted for each.
StationUpdateBodies ==
    [name : Names \cup {None, Unset},
     location : Locations \cup {None, Unset},
     is_active : {True, False, None, Unset}]

NoBody == [name |-> Unset, location |-> Unset, is_active |-> Unset]

\* Mutant: is_active declared with the default False.
CreateDefault_inactive(f) == IF f = "is_active" THEN False ELSE None

\* The default a model declares for a field.
CreateDefault(f) == IF f = "is_active" THEN True ELSE None

\* station.model_dump() of a StationCreate: every field, defaults filled in.
model_dump(station) ==
    [f \in Fields |-> IF station[f] = Unset THEN CreateDefault(f) ELSE station[f]]

\* station_update.<f>: the attribute of a StationUpdate (default None).
Attr(station_update, f) ==
    IF station_update[f] = Unset THEN None ELSE station_update[f]

\* Mutant: model_dump() without exclude_unset, every field with its default.
model_dump_all(station_update) ==
    [f \in Fields |-> Attr(station_update, f)]

\* station_update.model_dump(exclude_unset=True): only the fields the body carries.
model_dump_exclude_unset(station_update) ==
    [f \in {g \in Fields : station_update[g] # Unset} |-> station_update[f]]

\* dict.update(update_data) on a stored record.
dict_update(existing, update_data) ==
    [f \in DOMAIN existing |->
        IF f \in DOMAIN update_data THEN update_data[f] ELSE existing[f]]

\* Station(**data) validates: name: str and is_active: bool reject None.
StationValid(data) == data.name # None /\ data.is_active # None

\* What a handler leaves behind: the dict, the counter, the HTTP status, the body.
Out(db, nid, status, body) ==
    [db |-> db, next_id |-> nid, status |-> status, body |-> body]

\* The response of a handler that returns Station(**data): 500 when validation raises.
Respond(db, nid, status, data) ==
    IF StationValid(data) THEN Out(db, nid, status, <<data>>)
    ELSE Out(db, nid, 500, <<>>)

(* ------------------------------ handlers ------------------------------ *)

\* The records are filtered, then sliced, then each one of the page is
\* validated by Station(**station).
get_stations(db, nid, skip, limit, is_active) ==
    LET stations == Values(db)
        filtered ==
            IF is_active # None
            THEN SelectSeq(stations, LAMBDA s : s.is_active = is_active)
            ELSE stations
        page == PySlice(filtered, skip, skip + limit)
    IN  IF \A i \in DOMAIN page : StationValid(page[i])
        THEN Out(db, nid, 200, page)
        ELSE Out(db, nid, 500, <<>>)

get_station(db, nid, station_id) ==
    IF ~Has(db, station_id) THEN Out(db, nid, 404, <<>>)
    ELSE Respond(db, nid, 200, Lookup(db, station_id))

\* The largest key of the dict, 0 for an empty one.
MaxKey(db) == IF db = <<>> THEN 0 ELSE CHOOSE k \in Keys(db) : \A j \in Keys(db) : j <= k

\* Mutant: the id derived from the records stored, not from a counter.
create_station_derived_id(db, nid, station, now) ==
    IF \E i \in DOMAIN db : db[i].val.name = station.name
    THEN Out(db, nid, 400, <<>>)
    ELSE LET new_id == MaxKey(db) + 1
             station_data ==
                 model_dump(station)
                     @@ [id |-> new_id, created_at |-> now, updated_at |-> now]
         IN  Out(DictSet(db, new_id, station_data), nid + 1, 201, <<station_data>>)

\* Mutant: no uniqueness check before the insert.
create_station_unchecked(db, nid, station, now) ==
    LET station_data ==
            model_dump(station)
                @@ [id |-> nid, created_at |-> now, updated_at |-> now]
    IN  Out(DictSet(db, nid, station_data), nid + 1, 201, <<station_data>>)

\* Mutant: the counter is incremented before the uniqueness check.
create_station_count_first(db, nid, station, now) ==
    IF \E i \in DOMAIN db : db[i].val.name = station.name
    THEN Out(db, nid + 1, 400, <<>>)
    ELSE LET station_data ==
                 model_dump(station)
                     @@ [id |-> nid, created_at |-> now, updated_at |-> now]
         IN  Out(DictSet(db, nid, station_data), nid + 1, 201, <<station_data>>)

\* The record is stored before Station(**station_data) validates it, and the
\* counter is incremented after.
create_station(db, nid, station, now) ==
    IF \E i \in DOMAIN db : db[i].val.name = station.name
    THEN Out(db, nid, 400, <<>>)
    ELSE LET station_data ==
                 model_dump(station)
                     @@ [id |-> nid, created_at |-> now, updated_at |-> now]
             stored == DictSet(db, nid, station_data)
         IN  IF StationValid(station_data)
             THEN Out(stored, nid + 1, 201, <<station_data>>)
             ELSE Out(stored, nid, 500, <<>>)

\* Mutant: the supplied fields are applied before the uniqueness check.
update_station_apply_first(db, nid, station_id, station_update, now) ==
    IF ~Has(db, station_id) THEN Out(db, nid, 404, <<>>)
    ELSE LET update_data == model_dump_exclude_unset(station_update)
             existing_station ==
                 IF DOMAIN update_data # {}
                 THEN [dict_update(Lookup(db, station_id), update_data)
                          EXCEPT !.updated_at = now]
                 ELSE Lookup(db, station_id)
             stored == DictSet(db, station_id, existing_station)
         IN  IF /\ Truthy(Attr(station_update, "name"))
                /\ \E i \in DOMAIN db :
                      /\ db[i].key # station_id
                      /\ db[i].val.name = Attr(station_update, "name")
             THEN Out(stored, nid, 400, <<>>)
             ELSE Respond(stored, nid, 200, existing_station)

\* Mutant: the time of the call is written to created_at.
update_station_touch_created(db, nid, station_id, station_update, now) ==
    IF ~Has(db, station_id) THEN Out(db, nid, 404, <<>>)
    ELSE IF /\ Truthy(Attr(station_update, "name"))
            /\ \E i \in DOMAIN db :
                  /\ db[i].key # station_id
                  /\ db[i].val.name = Attr(station_update, "name")
    THEN Out(db, nid, 400, <<>>)
    ELSE LET update_data == model_dump_exclude_unset(station_update)
             existing_station ==
                 IF DOMAIN update_data # {}
                 THEN [dict_update(Lookup(db, station_id), update_data)
                          EXCEPT !.created_at = now]
                 ELSE Lookup(db, station_id)
         IN  Respond(DictSet(db, station_id, existing_station), nid, 200,
                     existing_station)

\* Mutant: updated_at is left as it was.
update_station_no_touch(db, nid, station_id, station_update, now) ==
    IF ~Has(db, station_id) THEN Out(db, nid, 404, <<>>)
    ELSE IF /\ Truthy(Attr(station_update, "name"))
            /\ \E i \in DOMAIN db :
                  /\ db[i].key # station_id
                  /\ db[i].val.name = Attr(station_update, "name")
    THEN Out(db, nid, 400, <<>>)
    ELSE LET update_data == model_dump_exclude_unset(station_update)
             existing_station == dict_update(Lookup(db, station_id), update_data)
         IN  Respond(DictSet(db, station_id, existing_station), nid, 200,
                     existing_station)

update_station(db, nid, station_id, station_update, now) ==
    IF ~Has(db, station_id) THEN Out(db, nid, 404, <<>>)
    ELSE IF /\ Truthy(Attr(station_update, "name"))
            /\ \E i \in DOMAIN db :
                  /\ db[i].key # station_id
                  /\ db[i].val.name = Attr(station_update, "name")
    THEN Out(db, nid, 400, <<>>)
    ELSE LET update_data == model_dump_exclude_unset(station_update)
             existing_station ==
                 IF DOMAIN update_data # {}
                 THEN [dict_update(Lookup(db, station_id), update_data)
                          EXCEPT !.updated_at = now]
                 ELSE Lookup(db, station_id)
         IN  Respond(DictSet(db, station_id, existing_station), nid, 200,
                     existing_station)

patch_station(db, nid, station_id, station_update, now) ==
    update_station(db, nid, station_id, station_update, now)

\* Mutant: deleting an absent id is accepted.
delete_station_idempotent(db, nid, station_id) ==
    Out(DictDel(db, station_id), nid, 204, <<>>)

delete_station(db, nid, station_id) ==
    IF ~Has(db, station_id) THEN Out(db, nid, 404, <<>>)
    ELSE Out(DictDel(db, station_id), nid, 204, <<>>)

\* Mutant: the flag is stored and updated_at is left as it was.
set_active_flag_only(db, nid, station_id, flag, now) ==
    IF ~Has(db, station_id) THEN Out(db, nid, 404, <<>>)
    ELSE LET data == [Lookup(db, station_id) EXCEPT !.is_active = flag]
         IN  Respond(DictSet(db, station_id, data), nid, 200, data)

\* Mutant: the time of the call is written to created_at as well.
set_active_touch_created(db, nid, station_id, flag, now) ==
    IF ~Has(db, station_id) THEN Out(db, nid, 404, <<>>)
    ELSE LET data == [Lookup(db, station_id)
                         EXCEPT !.is_active = flag, !.updated_at = now,
                                !.created_at = now]
         IN  Respond(DictSet(db, station_id, data), nid, 200, data)

\* activate_station and deactivate_station differ in the flag they store.
set_active(db, nid, station_id, flag, now) ==
    IF ~Has(db, station_id) THEN Out(db, nid, 404, <<>>)
    ELSE LET data == [Lookup(db, station_id)
                         EXCEPT !.is_active = flag, !.updated_at = now]
         IN  Respond(DictSet(db, station_id, data), nid, 200, data)

activate_station(db, nid, station_id, now) ==
    set_active(db, nid, station_id, True, now)

deactivate_station(db, nid, station_id, now) ==
    set_active(db, nid, station_id, False, now)

(* ------------------------------- actions ------------------------------ *)

Init ==
    /\ stations_db = <<>>
    /\ next_id = 1
    /\ clock = 0
    /\ req = [op |-> "none", id |-> 0, has_fields |-> FALSE]
    /\ resp = [status |-> 0, body |-> <<>>]
    /\ created_ids = <<>>

\* One request served: the handler's outcome becomes the state.  req keeps the
\* operation, the path parameter and whether the body carries any field, resp
\* the status and the body returned;
\* created_ids is the history of the ids that successful creates returned.
Serve(op, id, body, now, out) ==
    /\ now <= MaxClock
    /\ clock' = now
    /\ stations_db' = out.db
    /\ next_id' = out.next_id
    /\ req' = [op |-> op, id |-> id, has_fields |-> body # NoBody]
    /\ resp' = [status |-> out.status, body |-> out.body]
    /\ created_ids' =
          IF op = "create" /\ out.status = 201
          THEN Append(created_ids, out.body[1].id)
          ELSE created_ids

GetStations ==
    \E skip \in Skips, limit \in Limits, is_active \in Filters, d \in Elapsed :
        Serve("list", 0, NoBody, clock + d,
              get_stations(stations_db, next_id, skip, limit, is_active))

GetStation ==
    \E id \in Ids, d \in Elapsed :
        Serve("get", id, NoBody, clock + d, get_station(stations_db, next_id, id))

CreateStation ==
    \E station \in StationCreateBodies, d \in Elapsed :
        /\ next_id <= MaxCreates
        /\ Serve("create", 0, station, clock + d,
                 create_station(stations_db, next_id, station, clock + d))

UpdateStation ==
    \E id \in Ids, upd \in StationUpdateBodies, d \in Elapsed :
        Serve("update", id, upd, clock + d,
              update_station(stations_db, next_id, id, upd, clock + d))

PatchStation ==
    \E id \in Ids, upd \in StationUpdateBodies, d \in Elapsed :
        Serve("patch", id, upd, clock + d,
              patch_station(stations_db, next_id, id, upd, clock + d))

DeleteStation ==
    \E id \in Ids, d \in Elapsed :
        Serve("delete", id, NoBody, clock + d,
              delete_station(stations_db, next_id, id))

ActivateStation ==
    \E id \in Ids, d \in Elapsed :
        Serve("activate", id, NoBody, clock + d,
              activate_station(stations_db, next_id, id, clock + d))

DeactivateStation ==
    \E id \in Ids, d \in Elapsed :
        Serve("deactivate", id, NoBody, clock + d,
              deactivate_station(stations_db, next_id, id, clock + d))

Next ==
    \/ GetStations
    \/ GetStation
    \/ CreateStation
    \/ UpdateStation
    \/ PatchStation
    \/ DeleteStation
    \/ ActivateStation
    \/ DeactivateStation

Spec == Init /\ [][Next]_vars

(* ------------------------------- claims ------------------------------- *)

\* datetime.now() of the next call.
Now == clock + 1

\* The names the stored records hold.
StoredNames(db) == {db[i].val.name : i \in DOMAIN db}

UpdateOps == {"update", "patch"}

ToggleOps == {"activate", "deactivate"}

\* The operations that take a path parameter.
IdOps == {"get", "delete"} \cup UpdateOps \cup ToggleOps

\* C1: no two distinct stored records hold the same value in the
\* uniqueness-key field (name for stations), in any reachable state.
C1_UniqueKey ==
    \A i, j \in DOMAIN stations_db :
        i # j => stations_db[i].val.name # stations_db[j].val.name

\* C2: the ids successful creates were given are strictly increasing in the
\* order of the creates, so no id is given twice, deletions in between or not.
C2_IdMonotonic ==
    \A i, j \in DOMAIN created_ids : i < j => created_ids[i] < created_ids[j]

\* C2 witness: id 1 was created and deleted while it was the highest id, and
\* the create that followed has just been given id 2.
C2_Witness ==
    /\ req.op = "create" /\ resp.status = 201
    /\ created_ids = <<1, 2>>
    /\ Keys(stations_db) = {2}

\* C3: an operation that ends in an error leaves the collection and the id
\* counter exactly as they were before the call.
C3_AllOrNothing ==
    [][resp'.status >= 400 =>
          (stations_db' = stations_db /\ next_id' = next_id)]_vars

\* C4: an update (PUT or PATCH) that fails with DuplicateKey (400) leaves every
\* record, updated_at included, and the id counter unchanged.
C4_ConflictAtomic ==
    [][(req'.op \in UpdateOps /\ resp'.status = 400) =>
          (stations_db' = stations_db /\ next_id' = next_id)]_vars

\* C4 witness: an update has just been refused with 400.
C4_Witness ==
    /\ req.op \in UpdateOps /\ resp.status = 400
    /\ Len(stations_db) = 2

\* The frame of a partial update of station_id by station_update, from db to db2.
UpdateFrame(db, db2, station_id, station_update) ==
    /\ Len(db2) = Len(db)
    /\ \A i \in DOMAIN db :
          /\ db2[i].key = db[i].key
          /\ db[i].key # station_id => db2[i] = db[i]
    /\ LET old == Lookup(db, station_id)
           new == Lookup(db2, station_id)
       IN  /\ DOMAIN new = DOMAIN old
           /\ new.id = old.id
           /\ new.created_at = old.created_at
           /\ \A f \in Fields :
                 new[f] = IF station_update[f] = Unset THEN old[f]
                          ELSE station_update[f]

\* C5: in every reachable state, a successful update changes in the target
\* record only the fields the body carries (to the values it carries, an
\* explicit null or empty string included) and updated_at; absent fields, id
\* and created_at keep their values, and every other record and the id
\* counter are unchanged.
C5_PartialUpdateFrame ==
    \A id \in Ids, upd \in StationUpdateBodies :
        LET out == update_station(stations_db, next_id, id, upd, Now)
        IN  out.status = 200 =>
               /\ out.next_id = next_id
               /\ UpdateFrame(stations_db, out.db, id, upd)

\* C5 witness: an update has succeeded on a record created earlier, next to
\* another record, and the record holds an empty name and a location.
C5_Witness ==
    /\ req.op = "update" /\ resp.status = 200
    /\ Len(stations_db) = 2
    /\ resp.body[1].created_at < resp.body[1].updated_at
    /\ resp.body[1].name = ""
    /\ resp.body[1].location = "Zone A"

\* C6: in every reachable state, a create whose name is held by a stored
\* record fails with 400, stores nothing and leaves the collection and the
\* counter as they were.
C6_DuplicateCreate ==
    \A station \in StationCreateBodies :
        station.name \in StoredNames(stations_db) =>
            LET out == create_station(stations_db, next_id, station, Now)
            IN  /\ out.status = 400
                /\ out.db = stations_db
                /\ out.next_id = next_id
                /\ out.body = <<>>

\* C6 witness: a create has just been refused with 400 and the collection
\* still has exactly one record.
C6_Witness ==
    /\ req.op = "create" /\ resp.status = 400
    /\ Len(stations_db) = 1

\* C7: in every reachable state, a successful create whose body does not carry
\* is_active stores and returns a record with is_active true, created_at =
\* updated_at = the time of the call, the body's fields, and the id of the
\* counter; a get of that id right after returns the same record; the first
\* successful create gets id 1.
C7_CreateDefaults ==
    \A station \in StationCreateBodies :
        LET out == create_station(stations_db, next_id, station, Now)
        IN  (station.is_active = Unset /\ out.status = 201) =>
               LET r == out.body[1]
               IN  /\ r.is_active = True
                   /\ r.created_at = Now /\ r.updated_at = r.created_at
                   /\ r.name = station.name
                   /\ r.location =
                         (IF station.location = Unset THEN None ELSE station.location)
                   /\ r.id = next_id
                   /\ ~Has(stations_db, r.id)
                   /\ Has(out.db, r.id) /\ Lookup(out.db, r.id) = r
                   /\ get_station(out.db, out.next_id, r.id)
                         = Out(out.db, out.next_id, 200, <<r>>)
                   /\ (created_ids = <<>> => r.id = 1)

\* C7 witness: the first create has just succeeded with id 1, active, and
\* the record returned is the record stored.
C7_Witness ==
    /\ req.op = "create" /\ resp.status = 201
    /\ created_ids = <<1>>
    /\ resp.body[1].is_active = True
    /\ resp.body[1].created_at = clock
    /\ Lookup(stations_db, 1) = resp.body[1]

\* C8 as stated: every successful update, whatever fields its body carries,
\* and every successful activate and deactivate, leaves the record's
\* updated_at at the time of the call.
C8_EveryUpdateTouches ==
    [][(req'.op \in UpdateOps \cup ToggleOps /\ resp'.status = 200) =>
          Lookup(stations_db', req'.id).updated_at = clock']_vars

\* C8 amended: a successful update (PUT or PATCH) whose body carries at least
\* one field, and every successful activate and deactivate, sets the record's
\* updated_at to the time of the call; a successful update whose body carries
\* no field leaves the collection, updated_at included, unchanged.
C8_UpdateTouches ==
    [][(req'.op \in UpdateOps \cup ToggleOps /\ resp'.status = 200) =>
          IF req'.op \in UpdateOps /\ ~req'.has_fields
          THEN stations_db' = stations_db
          ELSE Lookup(stations_db', req'.id).updated_at = clock']_vars

\* C8 witness: an update has just succeeded and the record it returns carries
\* the time of the call, later than its creation.
C8_Witness ==
    /\ req.op = "update" /\ resp.status = 200 /\ req.has_fields
    /\ resp.body[1].updated_at = clock
    /\ resp.body[1].created_at < clock

\* C9: get, update, patch, delete, activate and deactivate of an id the
\* collection does not hold fail with 404 and leave the collection and the id
\* counter unchanged.
C9_NotFound ==
    [][(req'.op \in IdOps /\ ~Has(stations_db, req'.id)) =>
          /\ resp'.status = 404
          /\ stations_db' = stations_db
          /\ next_id' = next_id]_vars

\* C9 witness: a deactivate of an id that was assigned and has since been
\* deleted has just failed with 404.
C9_Witness ==
    /\ req.op = "deactivate" /\ resp.status = 404
    /\ req.id < next_id
    /\ ~Has(stations_db, req.id)

\* C10: every activate (deactivate) of a present id succeeds, leaves is_active
\* true (false), changes no other field than is_active and updated_at, leaves
\* the id present, and leaves updated_at later than it was; so a second call
\* in a row, which finds the id present and the flag already set, succeeds as
\* the first did, with updated_at later than after the first.
C10_IdempotentToggle ==
    [][(req'.op \in ToggleOps /\ Has(stations_db, req'.id)) =>
          LET flag == IF req'.op = "activate" THEN True ELSE False
              before == Lookup(stations_db, req'.id)
          IN  /\ resp'.status = 200
              /\ Has(stations_db', req'.id)
              /\ LET after == Lookup(stations_db', req'.id)
                 IN  /\ after.is_active = flag
                     /\ after.updated_at > before.updated_at
                     /\ \A f \in {"id", "created_at", "name", "location"} :
                           after[f] = before[f]]_vars

\* C11: in every reachable state and for every id, activate (deactivate) and
\* an update whose body carries only is_active = true (false) give the same
\* status, the same returned record, and the same collection and counter.
C11_ToggleIsUpdate ==
    \A id \in Ids :
        /\ activate_station(stations_db, next_id, id, Now)
              = update_station(stations_db, next_id, id,
                               [NoBody EXCEPT !.is_active = True], Now)
        /\ deactivate_station(stations_db, next_id, id, Now)
              = update_station(stations_db, next_id, id,
                               [NoBody EXCEPT !.is_active = False], Now)

\* C11 witness: a deactivate has just succeeded on a record created earlier,
\* next to a request for an absent id being possible (id 3 is not stored).
C11_Witness ==
    /\ req.op = "deactivate" /\ resp.status = 200
    /\ resp.body[1].is_active = False
    /\ resp.body[1].created_at < resp.body[1].updated_at
    /\ ~Has(stations_db, 3)

\* The stored records whose is_active equals the filter, all of them without
\* a filter, in stored order.
Matching(db, is_active) ==
    LET idx == {i \in DOMAIN db : is_active = None \/ db[i].val.is_active = is_active}
        \* the position in db of the k-th matching record
        nth[k \in 1..Cardinality(idx)] ==
            CHOOSE i \in idx : Cardinality({j \in idx : j <= i}) = k
    IN  [k \in 1..Cardinality(idx) |-> db[nth[k]].val]

\* The page a list is to return: the first skip matching records dropped, at
\* most limit of the remainder kept.
Page(matching, skip, limit) ==
    LET rest == IF Len(matching) > skip THEN Len(matching) - skip ELSE 0
        n == IF limit < rest THEN limit ELSE rest
    IN  [k \in 1..n |-> matching[skip + k]]

\* C12: in every reachable state, a list with nonnegative skip and limit
\* succeeds and returns exactly the matching records (the filter applied
\* first), the first skip of them dropped and at most limit of the rest kept.
C12_ListPage ==
    \A skip \in Skips, limit \in Limits, is_active \in Filters :
        (skip >= 0 /\ limit >= 0) =>
            LET out == get_stations(stations_db, next_id, skip, limit, is_active)
            IN  /\ out.status = 200
                /\ out.body = Page(Matching(stations_db, is_active), skip, limit)

\* C13: in every reachable state, a list with a negative skip or a negative
\* limit fails and returns no records.
C13_NegativeRejected ==
    \A skip \in Skips, limit \in Limits, is_active \in Filters :
        (skip < 0 \/ limit < 0) =>
            LET out == get_stations(stations_db, next_id, skip, limit, is_active)
            IN  out.status >= 400 /\ out.body = <<>>

\* C14: in every reachable state, a list with nonnegative skip and limit does
\* not fail; it returns the empty sequence on an empty collection, and when
\* skip is at least the number of matching records.
C14_ListNeverFails ==
    \A skip \in Skips, limit \in Limits, is_active \in Filters :
        (skip >= 0 /\ limit >= 0) =>
            LET out == get_stations(stations_db, next_id, skip, limit, is_active)
            IN  /\ out.status = 200
                /\ stations_db = <<>> => out.body = <<>>
                /\ skip >= Len(Matching(stations_db, is_active)) => out.body = <<>>

\* C15: a delete of a present id removes that record and only that record;
\* an id that was assigned and is no longer stored is never stored again, so
\* a get of it answers 404 in every later state; and right after the delete a
\* create carrying the deleted record's name succeeds, under a new id, unless
\* another stored record holds that name.
C15_DeletePermanent ==
    [][/\ (req'.op = "delete" /\ resp'.status = 204) =>
             /\ Has(stations_db, req'.id)
             /\ Keys(stations_db') = Keys(stations_db) \ {req'.id}
             /\ Len(stations_db') = Len(stations_db) - 1
             /\ \A k \in Keys(stations_db') :
                   Lookup(stations_db', k) = Lookup(stations_db, k)
             /\ next_id' = next_id
             /\ LET gone == Lookup(stations_db, req'.id)
                IN  \A station \in StationCreateBodies :
                       (/\ station.name = gone.name
                        /\ gone.name \notin StoredNames(stations_db')) =>
                           LET out == create_station(stations_db', next_id',
                                                     station, clock' + 1)
                           IN  /\ out.status = 201
                               /\ out.body[1].id # req'.id
                               /\ out.body[1].name = gone.name
       /\ \A id \in Ids :
             (id < next_id /\ ~Has(stations_db, id)) =>
                 /\ ~Has(stations_db', id)
                 /\ get_station(stations_db', next_id', id).status = 404]_vars

\* C15 witness: the delete of id 1 has just succeeded, the record of id 2 is
\* the one left, and no stored record holds the name "S1".
C15_Witness ==
    /\ req.op = "delete" /\ resp.status = 204 /\ req.id = 1
    /\ Keys(stations_db) = {2}
    /\ "S1" \notin StoredNames(stations_db)

\* C16: the handlers are coroutines without an await that suspends them, so
\* concurrent requests are served one whole handler after the other, in any
\* order, which is what Next explores.  In no such interleaving do two stored
\* records share a name, do two creates get the same id, or does a create
\* replace or change a record stored before it.
C16_AtomicCreate ==
    [][/\ \A i, j \in DOMAIN stations_db' :
             i # j => stations_db'[i].val.name # stations_db'[j].val.name
       /\ \A i, j \in DOMAIN created_ids' :
             i # j => created_ids'[i] # created_ids'[j]
       /\ (req'.op = "create" /\ resp'.status = 201) =>
             /\ ~Has(stations_db, resp'.body[1].id)
             /\ \A k \in Keys(stations_db) :
                   /\ Has(stations_db', k)
                   /\ Lookup(stations_db', k) = Lookup(stations_db, k)]_vars

\* C17: every stored record has updated_at >= created_at, in every reachable
\* state (the clock does not go backwards).
C17_UpdatedAfterCreated ==
    \A i \in DOMAIN stations_db :
        stations_db[i].val.updated_at >= stations_db[i].val.created_at

\* C17 witness: a stored record has been updated after its creation.
C17_Witness ==
    \E i \in DOMAIN stations_db :
        /\ stations_db[i].val.updated_at > stations_db[i].val.created_at
        /\ stations_db[i].val.updated_at = clock
        /\ req.op \in UpdateOps /\ resp.status = 200

\* The largest of a set of ids, 0 for the empty set.
MaxOf(S) == IF S = {} THEN 0 ELSE CHOOSE k \in S : \A j \in S : j <= k

\* C18 as stated: every successful create is given the id max(ids of the
\* records stored at the time of the call, 0 if none) + 1.
C18_IdIsMaxStoredPlusOne ==
    [][(req'.op = "create" /\ resp'.status = 201) =>
          resp'.body[1].id = MaxOf(Keys(stations_db)) + 1]_vars

\* C18 amended: every successful create is given the id max(ids given by all
\* earlier successful creates, stored or deleted since, 0 if none) + 1, and
\* the record is stored under that id.
C18_IdIsMaxAssignedPlusOne ==
    [][(req'.op = "create" /\ resp'.status = 201) =>
          /\ resp'.body[1].id
                = MaxOf({created_ids[i] : i \in DOMAIN created_ids}) + 1
          /\ Has(stations_db', resp'.body[1].id)
          /\ Lookup(stations_db', resp'.body[1].id) = resp'.body[1]]_vars

\* C18 witness: a create has just been given id 2 while no record was stored,
\* id 1 having been deleted.
C18_Witness ==
    /\ req.op = "create" /\ resp.status = 201
    /\ resp.body[1].id = 2
    /\ Len(stations_db) = 1
    /\ Len(created_ids) = 2

\* C19: in every reachable state, the records a list returns, with or
\* without a filter, for every skip and limit, are in strictly ascending
\* order of id.
C19_ListAscending ==
    \A skip \in Skips, limit \in Limits, is_active \in Filters :
        LET out == get_stations(stations_db, next_id, skip, limit, is_active)
        IN  out.status = 200 =>
               \A i, j \in DOMAIN out.body :
                   i < j => out.body[i].id < out.body[j].id

\* C19 witness: a list has just returned the two stored records, id 1 first.
C19_Witness ==
    /\ req.op = "list" /\ resp.status = 200
    /\ Len(resp.body) = 2
    /\ resp.body[1].id = 1 /\ resp.body[2].id = 2

\* C20: in every reachable state, an update of a present id whose body
\* carries only the name v fails with 400 exactly when a record of another id
\* holds v, and succeeds when v is the record's own name and no other record
\* holds it.
C20_SelfExcluded ==
    \A id \in Keys(stations_db), v \in Names :
        LET out == update_station(stations_db, next_id, id,
                                  [NoBody EXCEPT !.name = v], Now)
            held == \E i \in DOMAIN stations_db :
                       /\ stations_db[i].key # id
                       /\ stations_db[i].val.name = v
        IN  /\ out.status = 400 <=> held
            /\ (Lookup(stations_db, id).name = v /\ ~held) => out.status = 200

\* C21: in every reachable state a get of a present id answers 200 with the
\* stored record, and neither a get nor a list changes the collection or the
\* id counter.
C21_ReadOnly ==
    /\ \A id \in Keys(stations_db) :
          LET out == get_station(stations_db, next_id, id)
          IN  /\ out.status = 200
              /\ out.body = <<Lookup(stations_db, id)>>
    /\ \A id \in Ids :
          LET out == get_station(stations_db, next_id, id)
          IN  out.db = stations_db /\ out.next_id = next_id
    /\ \A skip \in Skips, limit \in Limits, is_active \in Filters :
          LET out == get_stations(stations_db, next_id, skip, limit, is_active)
          IN  out.db = stations_db /\ out.next_id = next_id

\* C22: no step changes the id or the created_at of a record that stays
\* stored; every record is stored under the key equal to its id field; and
\* the record a successful create stores has created_at equal to the time of
\* that create (which no later step changes).
C22_IdentityImmutable ==
    [][/\ \A k \in Keys(stations_db) :
             Has(stations_db', k) =>
                /\ Lookup(stations_db', k).id = Lookup(stations_db, k).id
                /\ Lookup(stations_db', k).created_at
                      = Lookup(stations_db, k).created_at
       /\ \A i \in DOMAIN stations_db' :
             stations_db'[i].key = stations_db'[i].val.id
       /\ (req'.op = "create" /\ resp'.status = 201) =>
             /\ ~Has(stations_db, resp'.body[1].id)
             /\ Lookup(stations_db', resp'.body[1].id).created_at = clock']_vars

\* C22 witness: an activate has just succeeded on a record created earlier,
\* which is stored under its id with the created_at it had.
C22_Witness ==
    /\ req.op = "activate" /\ resp.status = 200
    /\ Has(stations_db, req.id)
    /\ Lookup(stations_db, req.id).id = req.id
    /\ Lookup(stations_db, req.id).is_active = True
    /\ Lookup(stations_db, req.id).created_at < clock

\* C23: in every reachable state the k-th successful create was given id k,
\* the id counter equals 1 + the number of successful creates, and the
\* counter is greater than every stored id; whatever failed creates and other
\* operations came between.
C23_FailedCreateKeepsId ==
    /\ \A k \in DOMAIN created_ids : created_ids[k] = k
    /\ next_id = Len(created_ids) + 1
    /\ \A k \in Keys(stations_db) : k < next_id

\* C23 witness: a create has just failed with 400 after one successful
\* create, and the counter is still 2.
C23_Witness ==
    /\ req.op = "create" /\ resp.status = 400
    /\ created_ids = <<1>>
    /\ next_id = 2

=============================================================================
